---- MODULE Spec2Model ----
(***************************************************************************)
(* Airthings integrations of the home-automation core.                     *)
(*                                                                         *)
(*  - airthings_ble/config_flow.py: the Bluetooth discovery/config flow.   *)
(*    Every flow session is one AirthingsConfigFlow object; the host calls *)
(*    its step handlers.  A handler runs atomically up to its next await   *)
(*    of the BLE SDK (update_device), where other sessions may run.        *)
(*  - airthings/__init__.py, airthings/sensor.py: the cloud polling        *)
(*    adapter and its sensor entities.                                     *)
(*                                                                         *)
(* Python strings are sequences of characters, dicts are functions, None   *)
(* is a value of the type at hand (NoDevice, NoDiscovery, "None").         *)
(***************************************************************************)
EXTENDS Integers, Sequences, FiniteSets, TLC

VARIABLES
    \* ---- host state shared by the BLE flow sessions
    configured,          \* unique ids of the config entries of the domain
    \* ---- one AirthingsConfigFlow object per session
    pc,                  \* where the session stands (last ConfigFlowResult)
    path,                \* "none" | "bluetooth" | "user": the init step called
    reason,              \* reason of async_abort, or the uncaught exception
    unique_id,           \* self.context["unique_id"]
    discovery_info,      \* the advertisement at hand (argument / loop variable)
    current_addresses,   \* local of async_step_user: self._async_current_ids()
    visited,             \* addresses of the scan's list already iterated
    discovered_device,   \* self._discovered_device
    discovered_devices,  \* self._discovered_devices
    title_placeholders,  \* self.context["title_placeholders"]
    data_schema,         \* choices of the form shown by async_step_user
    entry,               \* <<>> or <<the entry async_create_entry made>>
    \* ---- what the collaborators did in the session's last fetch
    fetches,             \* number of _get_device_data calls of the session
    ble_device,          \* what async_ble_device_from_address returned
    update_outcome,      \* how the SDK's update_device ended
    raised,              \* what _get_device_data raised to its caller
    \* ---- the cloud integration (one config entry)
    cloud_state,         \* "not_loaded" | "setup_retry" | "loaded"
    hass_data,           \* hass.data[DOMAIN]: entry id -> coordinator
    coordinator_data,    \* coordinator.data: serial -> AirthingsDevice
    last_update_success, \* coordinator.last_update_success
    last_exception,      \* message of the UpdateFailed of the last poll
    entities,            \* the entities handed to async_add_entities
    sdk_result,          \* what update_devices did in the last fetch
    last_unload_ok       \* <<unload_ok>> of the last unload since the setup

bleVars == <<configured, pc, path, reason, unique_id, discovery_info,
             current_addresses, visited, discovered_device, discovered_devices,
             title_placeholders, data_schema, entry, fetches, ble_device,
             update_outcome, raised>>

cloudVars == <<cloud_state, hass_data, coordinator_data, last_update_success,
               last_exception, entities, sdk_result, last_unload_ok>>

vars == <<bleVars, cloudVars>>

----------------------------------------------------------------------------
(* Bounds and input universes                                              *)

MaxVisible == 2

\* Flow sessions. Any session may be started by a discovery (bluetooth
\* path); the user starts the manual flow in the sessions of UserSessions.
Sessions == {"f1", "f2"}

UserSessions == {"f1"}

Addresses == {"a1", "a2"}

None == "None"

\* const.py: MFCT_ID
MFCT_ID == 820

\* another manufacturer's id
OtherMfctIds == {76}

\* config_flow.py: SERVICE_UUIDS (the four known services)
SERVICE_UUIDS ==
    << "b42e1f6e-ade7-11e4-89d3-123b93f75cba",
       "b42e4a8e-ade7-11e4-89d3-123b93f75cba",
       "b42e1c08-ade7-11e4-89d3-123b93f75cba",
       "b42e3882-ade7-11e4-89d3-123b93f75cba" >>

OtherUuid == "0000180a-0000-1000-8000-00805f9b34fb"

Tern == <<"T", "e", "r", "n">>

AdvertNames == { <<"W", "a", "v", "e">>, <<"A", " ", "T", "e", "r", "n">> }

\* BluetoothServiceInfo: the fields the flow reads
Adverts ==
    [ address           : Addresses,
      manufacturer_data : { {MFCT_ID}, OtherMfctIds },
      service_uuids     : { <<OtherUuid>>, <<OtherUuid, SERVICE_UUIDS[2]>> },
      name              : AdvertNames ]

\* The advertisements the host hands to async_step_bluetooth: those matching
\* the integration's discovery matcher (manufacturer id and a known service)
BluetoothAdverts ==
    { info \in Adverts :
        /\ MFCT_ID \in info.manufacturer_data
        /\ \E i \in 1..Len(info.service_uuids), j \in 1..Len(SERVICE_UUIDS) :
              info.service_uuids[i] = SERVICE_UUIDS[j] }

NoAdvert ==
    [ address |-> None, manufacturer_data |-> {}, service_uuids |-> <<>>,
      name |-> <<>> ]

FriendlyNames == { <<"W", "+">> }

Identifiers == { <<>>, <<"1", "2">> }

\* AirthingsDevice of the BLE SDK: friendly_name(), identifier,
\* firmware.need_fw_upgrade
Devices ==
    [ friendly_name   : FriendlyNames,
      identifier      : Identifiers,
      need_fw_upgrade : BOOLEAN ]

NoDevice ==
    [ friendly_name |-> <<>>, identifier |-> <<>>, need_fw_upgrade |-> FALSE ]

\* How the SDK's update_device can end: it returns a device, raises
\* BleakError, or raises another exception (with or without args).
UpdateOutcomes ==
    { [kind |-> "ok", device |-> d, args |-> <<>>] : d \in Devices }
    \cup { [kind |-> "BleakError", device |-> NoDevice, args |-> <<"timeout">>] }
    \cup { [kind |-> "Exception", device |-> NoDevice, args |-> a] :
             a \in { <<>>, <<"boom">> } }

\* async_ble_device_from_address: None or a connectable BLEDevice
BleHandles == {None, "BLEDevice"}

EmptyDict == [k \in {} |-> None]

\* the user_input of a submitted form without fields, the dict {}
Submitted == "{}"

NoDiscovery == [name |-> <<>>, discovery_info |-> None, device |-> NoDevice]

----------------------------------------------------------------------------
(* Pure helpers                                                            *)

\* Python's `sub in s` on strings
Contains(sub, s) ==
    \E i \in 1..(Len(s) - Len(sub) + 1) : SubSeq(s, i, i + Len(sub) - 1) = sub

\* Python's `x in list`
InList(x, l) == \E i \in 1..Len(l) : l[i] = x

\* dict[key] = value
DictSet(d, key, value) ==
    [k \in (DOMAIN d) \cup {key} |-> IF k = key THEN value ELSE d[k]]

\* get_name appending the parentheses whatever the identifier
get_name_parens(device) ==
    device.device.friendly_name \o <<" ", "(">> \o device.device.identifier
    \o <<")">>

\* config_flow.py get_name
get_name(device) ==
    IF device.device.identifier # <<>>
    THEN device.device.friendly_name \o <<" ", "(">> \o device.device.identifier
         \o <<")">>
    ELSE device.device.friendly_name

\* Discovery(name, discovery_info, device); of the advertisement only the
\* address is kept, no step reads the stored payload
Discovery(name, info, device) ==
    [name |-> name, discovery_info |-> info.address, device |-> device]

\* _get_device_data letting the SDK's BleakError through unconverted
get_device_data_bleak(outcome) ==
    CASE outcome.kind = "ok" ->
           [ raised |-> "none",
             value  |-> [device |-> outcome.device, data |-> "airthings"] ]
      [] outcome.kind = "BleakError" ->
           [ raised |-> "BleakError",
             value  |-> [device |-> NoDevice, data |-> None] ]
      [] OTHER ->
           [ raised |-> IF outcome.args = <<>> THEN "IndexError"
                        ELSE "UnboundLocalError",
             value  |-> [device |-> NoDevice, data |-> None] ]

\* _get_device_data with `device` bound before the try: the unexpected error
\* is swallowed and a partly populated result returned
get_device_data_swallow(outcome) ==
    CASE outcome.kind = "ok" ->
           [ raised |-> "none",
             value  |-> [device |-> outcome.device, data |-> "airthings"] ]
      [] outcome.kind = "BleakError" ->
           [ raised |-> "AirthingsDeviceUpdateError",
             value  |-> [device |-> NoDevice, data |-> None] ]
      [] OTHER ->
           [ raised |-> "none",
             value  |-> [device |-> NoDevice, data |-> "airthings"] ]

\* _get_device_data after update_device ended: what it raises, what it returns
get_device_data(outcome) ==
    CASE outcome.kind = "ok" ->
           [ raised |-> "none",
             value  |-> [device |-> outcome.device, data |-> "airthings"] ]
      [] outcome.kind = "BleakError" ->
           [ raised |-> "AirthingsDeviceUpdateError",
             value  |-> [device |-> NoDevice, data |-> None] ]
      [] OTHER ->
           \* except Exception: logs err.args[0] (IndexError without args),
           \* then `return DeviceAndData(device=device, ...)` reads the
           \* local `device`, which was never bound
           [ raised |-> IF outcome.args = <<>> THEN "IndexError"
                        ELSE "UnboundLocalError",
             value  |-> [device |-> NoDevice, data |-> None] ]

\* async_step_bluetooth: except AirthingsDeviceUpdateError / except Exception
BluetoothAbortReason(exc) ==
    IF exc = "AirthingsDeviceUpdateError" THEN "cannot_connect" ELSE "unknown"

\* the scan aborting with one reason whatever was raised
UserAbortReason_same(exc) == "cannot_connect"

\* async_step_user: except AirthingsDeviceUpdateError / except Exception
UserAbortReason(exc) ==
    IF exc = "AirthingsDeviceUpdateError" THEN "cannot_connect" ELSE "unknown"

\* the scan filters without the test against the configured unique ids
Skipped_noCurrent(info, current, discovered) ==
    \/ info.address \in DOMAIN discovered
    \/ MFCT_ID \notin info.manufacturer_data
    \/ /\ ~ \E i \in 1..Len(info.service_uuids) :
              InList(info.service_uuids[i], SERVICE_UUIDS)
       /\ ~ Contains(Tern, info.name)

\* the scan filters with the name test dropped from the service test
Skipped_noTern(info, current, discovered) ==
    \/ info.address \in current \/ info.address \in DOMAIN discovered
    \/ MFCT_ID \notin info.manufacturer_data
    \/ ~ \E i \in 1..Len(info.service_uuids) :
            InList(info.service_uuids[i], SERVICE_UUIDS)

\* async_step_user: the three `continue` filters of the scan loop
Skipped(info, current, discovered) ==
    \/ info.address \in current \/ info.address \in DOMAIN discovered
    \/ MFCT_ID \notin info.manufacturer_data
    \/ /\ ~ \E i \in 1..Len(info.service_uuids) :
              InList(info.service_uuids[i], SERVICE_UUIDS)
       /\ ~ Contains(Tern, info.name)

\* titles offering every address, discovered in the session or not
Titles_all(discovered) ==
    [a \in Addresses |->
        IF a \in DOMAIN discovered THEN discovered[a].name ELSE <<>>]

\* async_step_user: titles, the choices of vol.In(titles)
Titles(discovered) == [a \in DOMAIN discovered |-> discovered[a].name]

----------------------------------------------------------------------------
(* The BLE flow                                                            *)

BleInit ==
    /\ configured \in SUBSET Addresses
    /\ pc = [f \in Sessions |-> "idle"]
    /\ path = [f \in Sessions |-> "none"]
    /\ reason = [f \in Sessions |-> None]
    /\ unique_id = [f \in Sessions |-> None]
    /\ discovery_info = [f \in Sessions |-> NoAdvert]
    /\ current_addresses = [f \in Sessions |-> {}]
    /\ visited = [f \in Sessions |-> {}]
    /\ discovered_device = [f \in Sessions |-> NoDiscovery]
    /\ discovered_devices = [f \in Sessions |-> EmptyDict]
    /\ title_placeholders = [f \in Sessions |-> EmptyDict]
    /\ data_schema = [f \in Sessions |-> EmptyDict]
    /\ entry = [f \in Sessions |-> <<>>]
    /\ fetches = [f \in Sessions |-> 0]
    /\ ble_device = [f \in Sessions |-> None]
    /\ update_outcome = [f \in Sessions |-> None]
    /\ raised = [f \in Sessions |-> "none"]

\* The event loop runs one task at a time and switches tasks at an await
\* only: while a session is between two iterations of the scan loop
\* ("user_scan", synchronous code), no other session takes a step.
Scheduled(f) == \A g \in Sessions : pc[g] = "user_scan" => g = f

\* self.async_abort(reason=...), also AbortFlow raised by the host helpers
Abort(f, why) ==
    /\ pc' = [pc EXCEPT ![f] = "aborted"]
    /\ reason' = [reason EXCEPT ![f] = why]

\* self.async_create_entry(title=..., data={}): the host stores the entry
\* under the flow's unique id
CreateEntry(f, title, uid) ==
    /\ pc' = [pc EXCEPT ![f] = "created"]
    /\ entry' = [entry EXCEPT ![f] = << [title |-> title, data |-> EmptyDict] >>]
    /\ configured' = configured \cup {uid}

\* _get_device_data up to its await: resolve the handle, start update_device.
\* handle is what async_ble_device_from_address returns; fetching is the pc
\* while update_device is in flight, why the reason with which the caller
\* aborts on AirthingsDeviceUpdateError.
StartFetch(f, info, handle, fetching, why) ==
    /\ fetches' = [fetches EXCEPT ![f] = @ + 1]
    /\ ble_device' = [ble_device EXCEPT ![f] = handle]
    /\ update_outcome' = [update_outcome EXCEPT ![f] = None]
    /\ IF handle = None
       THEN /\ raised' = [raised EXCEPT ![f] = "AirthingsDeviceUpdateError"]
            /\ Abort(f, why)
       ELSE /\ raised' = [raised EXCEPT ![f] = "none"]
            /\ pc' = [pc EXCEPT ![f] = fetching]
            /\ UNCHANGED reason

\* async_step_bluetooth fetching without the unique-id check
AsyncStepBluetooth_unchecked(f, info, handle) ==
    /\ UNCHANGED cloudVars
    /\ Scheduled(f)
    /\ pc[f] = "idle"
    /\ path' = [path EXCEPT ![f] = "bluetooth"]
    /\ discovery_info' = [discovery_info EXCEPT ![f] = info]
    /\ unique_id' = [unique_id EXCEPT ![f] = info.address]
    /\ StartFetch(f, info, handle, "bluetooth_fetch",
                  BluetoothAbortReason("AirthingsDeviceUpdateError"))
    /\ UNCHANGED <<configured, current_addresses, visited, discovered_device,
                   discovered_devices, title_placeholders, data_schema, entry>>

\* async_step_bluetooth(discovery_info), up to the await in _get_device_data
AsyncStepBluetooth(f, info, handle) ==
    /\ UNCHANGED cloudVars
    /\ Scheduled(f)
    /\ pc[f] = "idle"
    /\ path' = [path EXCEPT ![f] = "bluetooth"]
    /\ discovery_info' = [discovery_info EXCEPT ![f] = info]
    /\ unique_id' = [unique_id EXCEPT ![f] = info.address]
    /\ IF info.address \in configured
       THEN /\ Abort(f, "already_configured")
            /\ UNCHANGED <<fetches, ble_device, update_outcome, raised>>
       ELSE StartFetch(f, info, handle, "bluetooth_fetch",
                  BluetoothAbortReason("AirthingsDeviceUpdateError"))
    /\ UNCHANGED <<configured, current_addresses, visited, discovered_device,
                   discovered_devices, title_placeholders, data_schema, entry>>

\* the confirm step creating the entry whether or not it got user input
async_step_bluetooth_confirm_eager(f, user_input, placeholders) ==
    CreateEntry(f, placeholders["name"], unique_id[f])

\* async_step_bluetooth_confirm(user_input); placeholders is
\* self.context["title_placeholders"] at the call
async_step_bluetooth_confirm(f, user_input, placeholders) ==
    IF user_input # None
    THEN CreateEntry(f, placeholders["name"], unique_id[f])
    ELSE \* async_show_form(step_id="bluetooth_confirm", ...)
         /\ pc' = [pc EXCEPT ![f] = "bluetooth_confirm"]
         /\ UNCHANGED <<entry, configured>>

\* async_step_bluetooth resumed when update_device ends; on success it ends
\* in async_step_bluetooth_confirm() without user input
BluetoothFetchReturn(f, outcome) ==
    /\ UNCHANGED cloudVars
    /\ Scheduled(f)
    /\ pc[f] = "bluetooth_fetch"
    /\ update_outcome' = [update_outcome EXCEPT ![f] = outcome.kind]
    /\ LET res == get_device_data(outcome)
           name == get_name(res.value)
           placeholders == [k \in {"name"} |-> name]
       IN /\ raised' = [raised EXCEPT ![f] = res.raised]
          /\ IF res.raised # "none"
             THEN /\ Abort(f, BluetoothAbortReason(res.raised))
                  /\ UNCHANGED <<title_placeholders, discovered_device, entry,
                                 configured>>
             ELSE /\ title_placeholders' =
                        [title_placeholders EXCEPT ![f] = placeholders]
                  /\ discovered_device' =
                        [discovered_device EXCEPT ![f] =
                            Discovery(name, discovery_info[f], res.value.device)]
                  /\ async_step_bluetooth_confirm(f, None, placeholders)
                  /\ UNCHANGED reason
    /\ UNCHANGED <<path, unique_id, discovery_info, current_addresses,
                   visited, discovered_devices, data_schema, fetches,
                   ble_device>>

\* the host calls async_step_bluetooth_confirm with the submitted form
AsyncStepBluetoothConfirm(f, user_input) ==
    /\ UNCHANGED cloudVars
    /\ Scheduled(f)
    /\ pc[f] = "bluetooth_confirm"
    /\ async_step_bluetooth_confirm(f, user_input, title_placeholders[f])
    /\ UNCHANGED <<path, reason, unique_id, discovery_info, current_addresses,
                   visited, discovered_device, discovered_devices,
                   title_placeholders, data_schema, fetches, ble_device,
                   update_outcome, raised>>

\* async_step_user(None) called by the host when the user starts the flow:
\* current_addresses = self._async_current_ids(), then the loop is entered
AsyncStepUser(f) ==
    /\ UNCHANGED cloudVars
    /\ Scheduled(f)
    /\ f \in UserSessions
    /\ pc[f] = "idle"
    /\ path' = [path EXCEPT ![f] = "user"]
    /\ current_addresses' = [current_addresses EXCEPT ![f] = configured]
    /\ visited' = [visited EXCEPT ![f] = {}]
    /\ pc' = [pc EXCEPT ![f] = "user_scan"]
    /\ UNCHANGED <<configured, reason, unique_id, discovery_info,
                   discovered_device, discovered_devices, title_placeholders,
                   data_schema, entry, fetches, ble_device, update_outcome,
                   raised>>

\* the loop going on to the next advertisement without awaiting the fetch
UserScanNext_noawait(f, info, handle) ==
    /\ UNCHANGED cloudVars
    /\ Scheduled(f)
    /\ pc[f] \in {"user_scan", "user_fetch"}
    /\ info.address \notin visited[f]
    /\ Cardinality(visited[f]) < MaxVisible
    /\ visited' = [visited EXCEPT ![f] = @ \cup {info.address}]
    /\ discovery_info' = [discovery_info EXCEPT ![f] = info]
    /\ IF Skipped(info, current_addresses[f], discovered_devices[f])
       THEN UNCHANGED <<pc, reason, fetches, ble_device, update_outcome, raised>>
       ELSE StartFetch(f, info, handle, "user_fetch",
                       UserAbortReason("AirthingsDeviceUpdateError"))
    /\ UNCHANGED <<configured, path, unique_id, current_addresses,
                   discovered_device, discovered_devices, title_placeholders,
                   data_schema, entry>>

\* one iteration of `for discovery_info in list(async_discovered_service_info
\* (self.hass))`, up to the await in _get_device_data. The list holds one
\* advertisement per address; its elements are drawn as the loop reaches them.
UserScanNext(f, info, handle) ==
    /\ UNCHANGED cloudVars
    /\ Scheduled(f)
    /\ pc[f] = "user_scan"
    /\ info.address \notin visited[f]
    /\ Cardinality(visited[f]) < MaxVisible
    /\ visited' = [visited EXCEPT ![f] = @ \cup {info.address}]
    /\ discovery_info' = [discovery_info EXCEPT ![f] = info]
    /\ IF Skipped(info, current_addresses[f], discovered_devices[f])
       THEN UNCHANGED <<pc, reason, fetches, ble_device, update_outcome, raised>>
       ELSE StartFetch(f, info, handle, "user_fetch",
                       UserAbortReason("AirthingsDeviceUpdateError"))
    /\ UNCHANGED <<configured, path, unique_id, current_addresses,
                   discovered_device, discovered_devices, title_placeholders,
                   data_schema, entry>>

\* the loop body resumed when update_device ends
UserFetchReturn(f, outcome) ==
    /\ UNCHANGED cloudVars
    /\ Scheduled(f)
    /\ pc[f] = "user_fetch"
    /\ update_outcome' = [update_outcome EXCEPT ![f] = outcome.kind]
    /\ LET res == get_device_data(outcome)
           name == get_name(res.value)
       IN /\ raised' = [raised EXCEPT ![f] = res.raised]
          /\ IF res.raised # "none"
             THEN /\ Abort(f, UserAbortReason(res.raised))
                  /\ UNCHANGED discovered_devices
             ELSE /\ discovered_devices' =
                        [discovered_devices EXCEPT ![f] =
                            DictSet(@, discovery_info[f].address,
                                    Discovery(name, discovery_info[f],
                                              res.value.device))]
                  /\ pc' = [pc EXCEPT ![f] = "user_scan"]
                  /\ UNCHANGED reason
    /\ UNCHANGED <<configured, path, unique_id, discovery_info,
                   current_addresses, visited, discovered_device,
                   title_placeholders, data_schema, entry, fetches, ble_device>>

\* the end of the scan showing the form whatever was discovered
UserScanEnd_form(f) ==
    /\ UNCHANGED cloudVars
    /\ Scheduled(f)
    /\ pc[f] = "user_scan"
    /\ data_schema' = [data_schema EXCEPT ![f] = Titles(discovered_devices[f])]
    /\ pc' = [pc EXCEPT ![f] = "user"]
    /\ UNCHANGED <<configured, path, reason, unique_id, discovery_info,
                   current_addresses, visited, discovered_device,
                   discovered_devices, title_placeholders, entry, fetches,
                   ble_device, update_outcome, raised>>

\* the loop is over: abort without devices, else show the selection form
UserScanEnd(f) ==
    /\ UNCHANGED cloudVars
    /\ Scheduled(f)
    /\ pc[f] = "user_scan"
    /\ IF DOMAIN discovered_devices[f] = {}
       THEN /\ Abort(f, "no_devices_found")
            /\ UNCHANGED data_schema
       ELSE /\ data_schema' =
                  [data_schema EXCEPT ![f] = Titles(discovered_devices[f])]
            /\ pc' = [pc EXCEPT ![f] = "user"]
            /\ UNCHANGED reason
    /\ UNCHANGED <<configured, path, unique_id, discovery_info,
                   current_addresses, visited, discovered_device,
                   discovered_devices, title_placeholders, entry, fetches,
                   ble_device, update_outcome, raised>>

\* the firmware check left out
need_fw_upgrade_ignored(discovery) == FALSE

\* async_step_user: `if discovery.device.firmware.need_fw_upgrade`
need_fw_upgrade(discovery) == discovery.device.need_fw_upgrade

\* async_step_user(user_input) called by the host with the submitted form;
\* the host has validated the address against the form's data_schema
AsyncStepUserSelect(f, address) ==
    /\ UNCHANGED cloudVars
    /\ Scheduled(f)
    /\ pc[f] = "user"
    /\ address \in DOMAIN data_schema[f]
    /\ unique_id' = [unique_id EXCEPT ![f] = address]
    /\ IF address \in configured
       THEN /\ Abort(f, "already_configured")
            /\ UNCHANGED <<title_placeholders, discovered_device, entry,
                           configured>>
       ELSE IF address \notin DOMAIN discovered_devices[f]
       THEN \* self._discovered_devices[address] raises KeyError
            /\ pc' = [pc EXCEPT ![f] = "error"]
            /\ reason' = [reason EXCEPT ![f] = "KeyError"]
            /\ UNCHANGED <<title_placeholders, discovered_device, entry,
                           configured>>
       ELSE LET discovery == discovered_devices[f][address]
            IN IF need_fw_upgrade(discovery)
               THEN /\ Abort(f, "firmware_upgrade_required")
                    /\ UNCHANGED <<title_placeholders, discovered_device,
                                   entry, configured>>
               ELSE /\ title_placeholders' =
                          [title_placeholders EXCEPT ![f] =
                              [k \in {"name"} |-> discovery.name]]
                    /\ discovered_device' =
                          [discovered_device EXCEPT ![f] = discovery]
                    /\ CreateEntry(f, discovery.name, address)
                    /\ UNCHANGED reason
    /\ UNCHANGED <<path, discovery_info, current_addresses, visited,
                   discovered_devices, data_schema, fetches, ble_device,
                   update_outcome, raised>>

----------------------------------------------------------------------------
(* The cloud integration                                                   *)

MaxSensors == 2

Serials == {"s1", "s2"}

\* dict iteration order of the reading-set
SerialOrder == <<"s1", "s2">>

EntryId == "entry_id"

\* sensor.py: the keys of the SENSORS table
SensorKeys ==
    { "radonShortTermAvg", "temp", "humidity", "pressure", "battery", "co2",
      "voc", "light", "virusRisk", "mold", "rssi", "pm1", "pm25" }

\* sensor.py: SENSORS, key -> SensorEntityDescription (its key)
SENSORS == [k \in SensorKeys |-> [key |-> k]]

\* (sensor_type, value) pairs the SDK reports; "lux" is not in SENSORS
Readings ==
    { [sensor_type |-> "temp", value |-> 21],
      [sensor_type |-> "co2",  value |-> 400],
      [sensor_type |-> "lux",  value |-> 7] }

\* a device's sensor list: one reading per sensor type
SensorLists ==
    UNION { { l \in [1..n -> Readings] :
                \A i, j \in 1..n : i # j => l[i].sensor_type # l[j].sensor_type } :
            n \in 0..MaxSensors }

\* serial -> device: what update_devices returns
ReadingSets ==
    UNION { { [sn \in D |-> [serial_number |-> sn, sensors |-> m[sn]]] :
                m \in [D -> SensorLists] } : D \in SUBSET Serials }

ErrorMessages == { <<"4", "0", "1">> }

\* update_devices returns a reading-set or raises AirthingsError(message)
SdkResults ==
    { [kind |-> "ok", devices |-> d, message |-> <<>>] : d \in ReadingSets }
    \cup { [kind |-> "AirthingsError", devices |-> EmptyDict, message |-> m] :
             m \in ErrorMessages }

NoSdkResult == [kind |-> None, devices |-> EmptyDict, message |-> <<>>]

\* _update_method raising UpdateFailed without the SDK's message
update_method_bare(result) ==
    IF result.kind = "AirthingsError"
    THEN [ raised  |-> "UpdateFailed",
           message |-> <<"Unable to fetch data">>,
           value   |-> EmptyDict ]
    ELSE [ raised |-> "none", message |-> <<>>, value |-> result.devices ]

\* __init__.py _update_method: the reading-set, or UpdateFailed
update_method(result) ==
    IF result.kind = "AirthingsError"
    THEN [ raised  |-> "UpdateFailed",
           message |-> <<"Unable to fetch data: ">> \o result.message,
           value   |-> EmptyDict ]
    ELSE [ raised |-> "none", message |-> <<>>, value |-> result.devices ]

\* the entity with the serial number alone as its unique id
AirthingsHeaterEnergySensor_serial(airthings_device, entity_description) ==
    [ unique_id |-> <<airthings_device.serial_number>>,
      id        |-> airthings_device.serial_number,
      key       |-> entity_description.key ]

\* AirthingsHeaterEnergySensor.__init__
AirthingsHeaterEnergySensor(airthings_device, entity_description) ==
    [ unique_id |-> <<airthings_device.serial_number, "_", entity_description.key>>,
      id        |-> airthings_device.serial_number,
      key       |-> entity_description.key ]

\* the inner loop without the `in SENSORS` filter
DeviceEntities_unfiltered(airthings_device) ==
    [ i \in 1..Len(airthings_device.sensors) |->
        AirthingsHeaterEnergySensor(
            airthings_device, [key |-> airthings_device.sensors[i].sensor_type]) ]

\* sensor.py async_setup_entry: the inner loop and filter, for one device
DeviceEntities(airthings_device) ==
    LET known == SelectSeq(airthings_device.sensors,
                           LAMBDA st : st.sensor_type \in DOMAIN SENSORS)
    IN [ i \in 1..Len(known) |->
           AirthingsHeaterEnergySensor(airthings_device,
                                       SENSORS[known[i].sensor_type]) ]

\* sensor.py async_setup_entry: the entities list over coordinator.data.values()
RECURSIVE SetupEntities(_, _)
SetupEntities(data, order) ==
    IF order = <<>> THEN <<>>
    ELSE (IF Head(order) \in DOMAIN data
          THEN DeviceEntities(data[Head(order)]) ELSE <<>>)
         \o SetupEntities(data, Tail(order))

\* the first sensor of the list with the entity's key, 0 if none
FirstMatch(sensors, key) ==
    IF \E i \in 1..Len(sensors) : sensors[i].sensor_type = key
    THEN CHOOSE i \in 1..Len(sensors) :
            /\ sensors[i].sensor_type = key
            /\ \A j \in 1..(i - 1) : sensors[j].sensor_type # key
    ELSE 0

\* AirthingsHeaterEnergySensor.native_value
native_value(self, data) ==
    IF self.id \notin DOMAIN data
    THEN [raised |-> "KeyError", value |-> None]
    ELSE LET sensors == data[self.id].sensors
             i == FirstMatch(sensors, self.key)
         IN IF i > 0 THEN [raised |-> "none", value |-> sensors[i].value]
            ELSE [raised |-> "none", value |-> None]

\* AirthingsHeaterEnergySensor.available
available(self, data) ==
    IF self.id \notin DOMAIN data
    THEN [raised |-> "KeyError", value |-> None]
    ELSE [ raised |-> "none",
           value  |-> FirstMatch(data[self.id].sensors, self.key) > 0 ]

CloudInit ==
    /\ cloud_state = "not_loaded"
    /\ hass_data = {}
    /\ coordinator_data = EmptyDict
    /\ last_update_success = TRUE
    /\ last_exception = <<>>
    /\ entities = <<>>
    /\ sdk_result = NoSdkResult
    /\ last_unload_ok = <<>>

\* the setup and its platform forwarding run again while the entry is loaded
CloudSetupEntry_again(result) ==
    /\ sdk_result' = result
    /\ LET got == update_method(result)
       IN IF got.raised # "none"
          THEN /\ cloud_state' = IF cloud_state = "loaded" THEN "loaded"
                                 ELSE "setup_retry"
               /\ last_update_success' = FALSE
               /\ last_exception' = got.message
               /\ UNCHANGED <<hass_data, coordinator_data, entities,
                              last_unload_ok>>
          ELSE /\ coordinator_data' = got.value
               /\ last_update_success' = TRUE
               /\ last_exception' = <<>>
               /\ hass_data' = hass_data \cup {EntryId}
               /\ entities' = SetupEntities(got.value, SerialOrder)
               /\ cloud_state' = "loaded"
               /\ last_unload_ok' = <<>>
    /\ UNCHANGED bleVars

\* __init__.py async_setup_entry, with sensor.py async_setup_entry forwarded
\* to; a failing first refresh raises ConfigEntryNotReady out of the setup
CloudSetupEntry(result) ==
    /\ cloud_state \in {"not_loaded", "setup_retry"}
    /\ sdk_result' = result
    /\ LET got == update_method(result)
       IN IF got.raised # "none"
          THEN /\ cloud_state' = "setup_retry"
               /\ last_update_success' = FALSE
               /\ last_exception' = got.message
               /\ UNCHANGED <<hass_data, coordinator_data, entities,
                              last_unload_ok>>
          ELSE /\ coordinator_data' = got.value
               /\ last_update_success' = TRUE
               /\ last_exception' = <<>>
               /\ hass_data' = hass_data \cup {EntryId}
               /\ entities' = SetupEntities(got.value, SerialOrder)
               /\ cloud_state' = "loaded"
               /\ last_unload_ok' = <<>>
    /\ UNCHANGED bleVars

\* one poll cycle of the coordinator: _update_method, then the cache
CloudPoll(result) ==
    /\ cloud_state = "loaded"
    /\ sdk_result' = result
    /\ LET got == update_method(result)
       IN IF got.raised # "none"
          THEN /\ last_update_success' = FALSE
               /\ last_exception' = got.message
               /\ UNCHANGED coordinator_data
          ELSE /\ coordinator_data' = got.value
               /\ last_update_success' = TRUE
               /\ last_exception' = <<>>
    /\ UNCHANGED <<cloud_state, hass_data, entities, last_unload_ok>>
    /\ UNCHANGED bleVars

\* the unload popping the coordinator whatever async_unload_platforms returned
CloudUnloadEntry_always(unload_ok) ==
    /\ cloud_state = "loaded"
    /\ last_unload_ok' = <<unload_ok>>
    /\ hass_data' = hass_data \ {EntryId}
    /\ IF unload_ok
       THEN /\ entities' = <<>>
            /\ cloud_state' = "not_loaded"
       ELSE UNCHANGED <<entities, cloud_state>>
    /\ UNCHANGED <<coordinator_data, last_update_success, last_exception,
                   sdk_result>>
    /\ UNCHANGED bleVars

\* __init__.py async_unload_entry; unload_ok is what async_unload_platforms
\* returns, the host removes the platform's entities when it is True
CloudUnloadEntry(unload_ok) ==
    /\ cloud_state = "loaded"
    /\ last_unload_ok' = <<unload_ok>>
    /\ IF unload_ok
       THEN /\ hass_data' = hass_data \ {EntryId}
            /\ entities' = <<>>
            /\ cloud_state' = "not_loaded"
       ELSE UNCHANGED <<hass_data, entities, cloud_state>>
    /\ UNCHANGED <<coordinator_data, last_update_success, last_exception,
                   sdk_result>>
    /\ UNCHANGED bleVars

----------------------------------------------------------------------------
(* Specifications                                                          *)

\* the BLE flow sessions, the cloud integration left alone
Init == BleInit /\ CloudInit

Next ==
    \/ \E f \in Sessions, info \in BluetoothAdverts, handle \in BleHandles :
          AsyncStepBluetooth(f, info, handle)
    \/ \E f \in Sessions, outcome \in UpdateOutcomes :
          BluetoothFetchReturn(f, outcome)
    \/ \E f \in Sessions : AsyncStepBluetoothConfirm(f, Submitted)
    \/ \E f \in Sessions : AsyncStepUser(f)
    \/ \E f \in Sessions, info \in Adverts, handle \in BleHandles :
          UserScanNext(f, info, handle)
    \/ \E f \in Sessions, outcome \in UpdateOutcomes :
          UserFetchReturn(f, outcome)
    \/ \E f \in Sessions : UserScanEnd(f)
    \/ \E f \in Sessions, address \in Addresses :
          AsyncStepUserSelect(f, address)

Spec == Init /\ [][Next]_vars

\* the cloud integration, no BLE flow started
InitCloud == BleInit /\ configured = {} /\ CloudInit

NextCloud ==
    \/ \E result \in SdkResults : CloudSetupEntry(result)
    \/ \E result \in SdkResults : CloudPoll(result)
    \/ \E unload_ok \in BOOLEAN : CloudUnloadEntry(unload_ok)

SpecCloud == InitCloud /\ [][NextCloud]_vars

----------------------------------------------------------------------------
(* Properties of the BLE flow (under Spec)                                 *)

\* the display name the flow is to give a device: "<friendly_name>
\* (<identifier>)" with an identifier, "<friendly_name>" without
DisplayName(d) ==
    IF Len(d.identifier) > 0
    THEN d.friendly_name \o <<" ", "(">> \o d.identifier \o <<")">>
    ELSE d.friendly_name

\* C1: on the automatic path, an advertisement whose address is a configured
\* unique id when async_step_bluetooth is called ends the flow in that very
\* step with abort reason already_configured, and neither _get_device_data
\* nor update_device has been started for the flow.
C1_ConfiguredAbortsBeforeFetch ==
    [][\A f \in Sessions :
         (pc[f] = "idle" /\ path'[f] = "bluetooth" /\ unique_id'[f] \in configured)
           => /\ pc'[f] = "aborted"
              /\ reason'[f] = "already_configured"
              /\ fetches'[f] = 0
              /\ ble_device'[f] = None]_vars

C1_Witness ==
    \E f \in Sessions :
        /\ path[f] = "bluetooth" /\ pc[f] = "aborted"
        /\ reason[f] = "already_configured"
        /\ unique_id[f] \in configured /\ fetches[f] = 0

\* the selection of a discovered device that needs a firmware upgrade
SelectsUpgradeNeeding(f) ==
    /\ pc[f] = "user" /\ pc'[f] # "user"
    /\ unique_id'[f] \in DOMAIN discovered_devices[f]
    /\ discovered_devices[f][unique_id'[f]].device.need_fw_upgrade

\* C2 as stated: on the manual path, selecting a discovered device whose
\* need_fw_upgrade flag is true creates no entry and aborts the flow with
\* reason firmware_upgrade_required.
C2_Original ==
    [][\A f \in Sessions :
         SelectsUpgradeNeeding(f)
           => /\ pc'[f] = "aborted" /\ entry'[f] = <<>>
              /\ reason'[f] = "firmware_upgrade_required"]_vars

\* C2 amended: on the manual path, selecting a discovered device whose
\* need_fw_upgrade flag is true creates no entry; the flow aborts with reason
\* firmware_upgrade_required, unless the address has become a configured
\* unique id since the scan, and then with reason already_configured.
C2_UpgradeNeededNeverCreates ==
    [][\A f \in Sessions :
         SelectsUpgradeNeeding(f)
           => /\ pc'[f] = "aborted" /\ entry'[f] = <<>>
              /\ configured' = configured
              /\ reason'[f] = IF unique_id'[f] \in configured
                              THEN "already_configured"
                              ELSE "firmware_upgrade_required"]_vars

C2_Witness ==
    \E f \in Sessions :
        /\ path[f] = "user" /\ pc[f] = "aborted"
        /\ reason[f] = "firmware_upgrade_required"
        /\ unique_id[f] \in DOMAIN discovered_devices[f]
        /\ discovered_devices[f][unique_id[f]].device.need_fw_upgrade
        /\ entry[f] = <<>>

\* C3: a manual scan in which no advertisement passed the filters (no
\* device-data fetch was made, the discovered-device dictionary is empty)
\* ends in abort with reason no_devices_found, and no selection form is shown.
C3_NoCandidateAborts ==
    \A f \in Sessions :
        (path[f] = "user" /\ pc[f] # "user_scan" /\ fetches[f] = 0)
          => /\ pc[f] = "aborted" /\ reason[f] = "no_devices_found"
             /\ DOMAIN discovered_devices[f] = {}
             /\ DOMAIN data_schema[f] = {}

C3_Witness ==
    \E f \in Sessions :
        /\ path[f] = "user" /\ pc[f] = "aborted"
        /\ reason[f] = "no_devices_found"
        /\ visited[f] # {} /\ fetches[f] = 0

\* C4: on the automatic path, once the fetch has succeeded the
\* bluetooth_confirm form carries the placeholder name "<friendly_name>
\* (<identifier>)" if the device has a non-empty identifier and
\* "<friendly_name>" otherwise, and the entry created on confirmation has
\* exactly that name as its title.
C4_ConfirmPlaceholderName ==
    \A f \in Sessions :
        (path[f] = "bluetooth" /\
            (update_outcome[f] = "ok" \/ pc[f] \in {"bluetooth_confirm", "created"}))
          => /\ update_outcome[f] = "ok"
             /\ pc[f] \in {"bluetooth_confirm", "created"}
             /\ DOMAIN title_placeholders[f] = {"name"}
             /\ title_placeholders[f]["name"] =
                    DisplayName(discovered_device[f].device)
             /\ pc[f] = "created" =>
                    /\ Len(entry[f]) = 1
                    /\ entry[f][1].title = DisplayName(discovered_device[f].device)

C4_Witness ==
    \E f, g \in Sessions :
        /\ path[f] = "bluetooth" /\ pc[f] = "created"
        /\ discovered_device[f].device.identifier # <<>>
        /\ entry[f][1].title = <<"W", "+", " ", "(", "1", "2", ")">>
        /\ path[g] = "bluetooth" /\ pc[g] = "bluetooth_confirm"
        /\ discovered_device[g].device.identifier = <<>>
        /\ title_placeholders[g]["name"] = <<"W", "+">>

\* C8: on both flow paths, when no connectable BLE handle is resolved for
\* the advertised address, or update_device raises BleakError, the fetch
\* fails with AirthingsDeviceUpdateError and the flow aborts with reason
\* cannot_connect without creating an entry.
C8_TransportFailureCannotConnect ==
    \A f \in Sessions :
        (fetches[f] > 0 /\ (ble_device[f] = None \/ update_outcome[f] = "BleakError"))
          => /\ raised[f] = "AirthingsDeviceUpdateError"
             /\ pc[f] = "aborted" /\ reason[f] = "cannot_connect"
             /\ entry[f] = <<>>

C8_Witness ==
    \E f, g \in Sessions :
        /\ path[f] = "user" /\ update_outcome[f] = "BleakError"
        /\ reason[f] = "cannot_connect"
        /\ path[g] = "bluetooth" /\ fetches[g] = 1 /\ ble_device[g] = None
        /\ reason[g] = "cannot_connect"

\* C9 as stated: when update_device raises an error that is not a transport
\* error, _get_device_data raises nothing to its caller but returns a result,
\* and the calling flow step goes on with it.
C9_Original ==
    \A f \in Sessions :
        update_outcome[f] = "Exception"
          => raised[f] = "none" /\ pc[f] # "aborted"

\* C9 amended: when update_device raises an error that is not a transport
\* error, _get_device_data logs it and then raises itself (IndexError from
\* err.args[0] if the error has no args, else UnboundLocalError from the
\* return statement reading the never-bound local `device`): it returns no
\* result, and the calling flow step aborts with reason unknown.
C9_UnexpectedErrorAbortsUnknown ==
    \A f \in Sessions :
        update_outcome[f] = "Exception"
          => /\ raised[f] \in {"IndexError", "UnboundLocalError"}
             /\ pc[f] = "aborted" /\ reason[f] = "unknown"
             /\ entry[f] = <<>>
             /\ discovery_info[f].address \notin DOMAIN discovered_devices[f]
             /\ discovered_device[f] = NoDiscovery

C9_Witness ==
    \E f, g \in Sessions :
        /\ path[f] = "user" /\ update_outcome[f] = "Exception"
        /\ raised[f] = "UnboundLocalError" /\ reason[f] = "unknown"
        /\ path[g] = "bluetooth" /\ update_outcome[g] = "Exception"
        /\ raised[g] = "IndexError" /\ reason[g] = "unknown"

AbortReasons ==
    { "already_configured", "cannot_connect", "unknown",
      "firmware_upgrade_required", "no_devices_found" }

\* C10: a flow session ends in exactly one of: an entry created, with the
\* display name of the device as title and an empty data payload, or an abort
\* with a reason among already_configured, cannot_connect, unknown,
\* firmware_upgrade_required, no_devices_found; no step ends in an uncaught
\* error, and no session that has not created an entry holds one.
C10_TerminalOutcomes ==
    \A f \in Sessions :
        /\ pc[f] \in { "idle", "bluetooth_fetch", "bluetooth_confirm",
                       "user_scan", "user_fetch", "user", "created", "aborted" }
        /\ pc[f] = "aborted" <=> reason[f] # None
        /\ pc[f] = "aborted" => reason[f] \in AbortReasons
        /\ pc[f] = "created" <=> entry[f] # <<>>
        /\ pc[f] = "created" =>
              /\ Len(entry[f]) = 1
              /\ entry[f][1].title = DisplayName(discovered_device[f].device)
              /\ DOMAIN entry[f][1].data = {}
              /\ unique_id[f] \in configured

C10_Witness ==
    \E f, g \in Sessions :
        /\ path[f] = "user" /\ pc[f] = "created"
        /\ entry[f][1].title = <<"W", "+", " ", "(", "1", "2", ")">>
        /\ pc[g] = "aborted" /\ reason[g] = "unknown"

\* what makes a visible advertisement a candidate of a scan whose snapshot
\* of the configured unique ids is current
Qualifies(info, current) ==
    /\ info.address \notin current
    /\ 820 \in info.manufacturer_data
    /\ \/ \E u \in { info.service_uuids[i] : i \in 1..Len(info.service_uuids) } :
             u \in { SERVICE_UUIDS[j] : j \in 1..Len(SERVICE_UUIDS) }
       \/ \E i \in 1..Len(info.name) :
             /\ i + 3 <= Len(info.name)
             /\ <<info.name[i], info.name[i + 1], info.name[i + 2],
                  info.name[i + 3]>> = <<"T", "e", "r", "n">>

InFlight(f) == pc[f] \in {"bluetooth_fetch", "user_fetch"}

\* C14 as stated: at most one update_device call is in flight at any time,
\* across all flow sessions.
C14_Original == Cardinality({ f \in Sessions : InFlight(f) }) <= 1

\* C14 amended: within one flow session at most one update_device call is in
\* flight at any time: a session starts a fetch only when none of its own is
\* awaited, and a manual scan visits its next advertisement only after the
\* fetch of the previous candidate has ended. Between two iterations of the
\* scan loop no other session takes a step; while a fetch is awaited other
\* sessions do, so fetches of different sessions can be in flight together.
C14_OneFetchPerSession ==
    [][\A f \in Sessions :
         /\ InFlight(f) => /\ fetches'[f] = fetches[f]
                           /\ visited'[f] = visited[f]
                           /\ discovery_info'[f] = discovery_info[f]
         /\ fetches'[f] # fetches[f] => /\ ~ InFlight(f)
                                        /\ fetches'[f] = fetches[f] + 1
         /\ pc[f] = "user_scan" =>
               \A g \in Sessions \ {f} : pc'[g] = pc[g] /\ fetches'[g] = fetches[g]]_vars

C14_Witness ==
    \E f, g \in Sessions :
        /\ pc[f] = "user_fetch" /\ fetches[f] = 2
        /\ pc[g] = "bluetooth_fetch"

\* the steps of the automatic path: "bluetooth_fetch" is the discovered
\* flow awaiting its device data
BluetoothPathSteps ==
    { <<"idle", "bluetooth_fetch">>, <<"idle", "aborted">>,
      <<"bluetooth_fetch", "bluetooth_confirm">>, <<"bluetooth_fetch", "aborted">>,
      <<"bluetooth_confirm", "created">> }

\* C15: on the automatic path a flow goes idle -> discovered (fetching) ->
\* bluetooth_confirm -> created, or aborts on the way; the entry is created
\* only by a bluetooth_confirm call with user input, made after the fetch
\* succeeded; the bluetooth_confirm call without user input that ends the
\* discovery step shows the form and creates nothing; a session creates at
\* most one entry.
C15_AutomaticPathSteps ==
    [][\A f \in Sessions :
         /\ (path'[f] = "bluetooth" /\ pc'[f] # pc[f])
              => /\ <<pc[f], pc'[f]>> \in BluetoothPathSteps
                 /\ pc[f] = "bluetooth_fetch"
                      => /\ entry'[f] = <<>> /\ configured' = configured
                         /\ pc'[f] = "bluetooth_confirm"
                               <=> update_outcome'[f] = "ok"
                 /\ pc'[f] = "created"
                      => /\ update_outcome[f] = "ok" /\ raised[f] = "none"
                         /\ entry[f] = <<>> /\ Len(entry'[f]) = 1
                         /\ configured' = configured \cup {unique_id[f]}
         /\ entry'[f] # entry[f] => entry[f] = <<>> /\ pc'[f] = "created"
         /\ pc[f] \in {"created", "aborted"} => pc'[f] = pc[f]]_vars

C15_Witness ==
    \E f \in Sessions :
        /\ path[f] = "bluetooth" /\ pc[f] = "created"
        /\ update_outcome[f] = "ok" /\ Len(entry[f]) = 1
        /\ unique_id[f] \in configured

\* the device a session's entry was created for
CreatedDevice(f) ==
    IF path[f] = "bluetooth" THEN discovered_device[f].device
    ELSE discovered_devices[f][unique_id[f]].device

\* C16: on the automatic and on the manual path, no entry is ever created
\* for a device whose need_fw_upgrade flag is true; such a flow ends aborted
\* with reason firmware_upgrade_required.
C16_NoEntryForUpgradeNeeding ==
    \A f \in Sessions :
        pc[f] = "created" => ~ CreatedDevice(f).need_fw_upgrade

\* C17: the unique id of every created entry is an address whose device
\* data the same session fetched successfully before, and which was not a
\* configured unique id when the flow checked it. On the automatic path it
\* is the advertised address, checked before the fetch; on the manual path
\* it is a key of the session's discovered-device dictionary, whose keys are
\* just the addresses fetched successfully in the scan and absent from the
\* scan's snapshot of the configured ids, and it is checked again at the
\* selection.
C17_CreatedIdWasFetched ==
    [][\A f \in Sessions :
         /\ discovered_devices'[f] # discovered_devices[f]
              => /\ pc[f] = "user_fetch" /\ update_outcome'[f] = "ok"
                 /\ discovery_info[f].address \notin current_addresses[f]
                 /\ DOMAIN discovered_devices'[f] =
                       DOMAIN discovered_devices[f] \cup {discovery_info[f].address}
         /\ (pc[f] = "idle" /\ pc'[f] = "bluetooth_fetch")
              => /\ unique_id'[f] = discovery_info'[f].address
                 /\ unique_id'[f] \notin configured
         /\ (path[f] = "bluetooth" /\ pc[f] # "idle")
              => /\ unique_id'[f] = unique_id[f]
                 /\ discovery_info'[f] = discovery_info[f]
         /\ (pc[f] # "created" /\ pc'[f] = "created")
              => /\ configured' = configured \cup {unique_id'[f]}
                 /\ IF path[f] = "bluetooth"
                    THEN /\ pc[f] = "bluetooth_confirm"
                         /\ update_outcome[f] = "ok"
                         /\ unique_id'[f] = discovery_info[f].address
                    ELSE /\ pc[f] = "user"
                         /\ unique_id'[f] \in DOMAIN discovered_devices[f]
                         /\ unique_id'[f] \notin configured]_vars

C17_Witness ==
    \E f \in Sessions :
        /\ path[f] = "user" /\ pc[f] = "created"
        /\ unique_id[f] \in DOMAIN discovered_devices[f]
        /\ Cardinality(DOMAIN discovered_devices[f]) = 2
        /\ unique_id[f] \in configured

\* C18: in the manual scan a failed fetch of one candidate aborts the flow,
\* with reason cannot_connect when _get_device_data raised
\* AirthingsDeviceUpdateError and unknown when it raised anything else,
\* whatever was fetched before; the failed candidate is not in the
\* discovered-device dictionary and no form is shown; the selection form is
\* shown only when every fetch of the scan succeeded.
C18_ScanFetchFailureAborts ==
    \A f \in Sessions :
        path[f] = "user"
          => /\ raised[f] # "none"
                  => /\ pc[f] = "aborted"
                     /\ reason[f] = IF raised[f] = "AirthingsDeviceUpdateError"
                                    THEN "cannot_connect" ELSE "unknown"
                     /\ discovery_info[f].address \notin DOMAIN discovered_devices[f]
                     /\ DOMAIN data_schema[f] = {}
             /\ (pc[f] = "aborted" /\ reason[f] \in {"cannot_connect", "unknown"})
                  => raised[f] # "none"
             /\ pc[f] = "user"
                  => /\ raised[f] = "none"
                     /\ Cardinality(DOMAIN discovered_devices[f]) = fetches[f]
                     /\ DOMAIN discovered_devices[f] \subseteq visited[f]

C18_Witness ==
    \E f \in Sessions :
        /\ path[f] = "user" /\ pc[f] = "aborted" /\ reason[f] = "unknown"
        /\ raised[f] = "UnboundLocalError"
        /\ fetches[f] = 2
        /\ Cardinality(DOMAIN discovered_devices[f]) = 1

----------------------------------------------------------------------------
(* Properties of the cloud integration (under SpecCloud)                   *)

\* the reading of sensor type key is in the cached bundle of serial sn
ReadingPresent(sn, key) ==
    /\ sn \in DOMAIN coordinator_data
    /\ \E i \in 1..Len(coordinator_data[sn].sensors) :
          coordinator_data[sn].sensors[i].sensor_type = key

\* C5: at sensor setup, for every device of the coordinator's data and every
\* sensor-type key of its sensor list that is not in the SENSORS table, no
\* entity is created for that (device, key).
C5_UnknownKeyNoEntity ==
    [][(cloud_state # "loaded" /\ cloud_state' = "loaded")
         => \A sn \in DOMAIN coordinator_data' :
              \A i \in 1..Len(coordinator_data'[sn].sensors) :
                 LET key == coordinator_data'[sn].sensors[i].sensor_type
                 IN key \notin SensorKeys
                      => ~ \E j \in 1..Len(entities') :
                            entities'[j].id = sn /\ entities'[j].key = key]_vars

C5_Witness ==
    /\ cloud_state = "loaded"
    /\ sdk_result.kind = "ok"
    /\ Len(entities) = 2
    /\ \E sn \in DOMAIN coordinator_data :
         /\ Len(coordinator_data[sn].sensors) = 2
         /\ ReadingPresent(sn, "lux") /\ ReadingPresent(sn, "temp")
         /\ \E j \in 1..Len(entities) :
               entities[j].id = sn /\ entities[j].key = "temp"

\* C6 as stated: whatever the cached reading-set holds after any sequence of
\* polls, an entity's native_value is the value of the reading of its key if
\* the cached bundle of its device holds one, and otherwise the entity
\* reports unavailable (available is False); neither getter raises.
C6_ValueOrUnavailable ==
    cloud_state = "loaded" =>
      \A j \in 1..Len(entities) :
         LET self == entities[j]
             nv == native_value(self, coordinator_data)
             av == available(self, coordinator_data)
         IN /\ nv.raised = "none" /\ av.raised = "none"
            /\ IF ReadingPresent(self.id, self.key)
               THEN /\ av.value = TRUE
                    /\ \E i \in 1..Len(coordinator_data[self.id].sensors) :
                         /\ coordinator_data[self.id].sensors[i].sensor_type
                              = self.key
                         /\ coordinator_data[self.id].sensors[i].value = nv.value
               ELSE av.value = FALSE

\* C7: a poll cycle calls update_devices(); when it returns, the cached
\* reading-set is exactly the returned mapping; when it raises
\* AirthingsError, the poll yields UpdateFailed with a message that contains
\* the original error message.
C7_PollReplacesOrFails ==
    /\ sdk_result.kind = "ok" =>
          /\ coordinator_data = sdk_result.devices
          /\ last_update_success
    /\ sdk_result.kind = "AirthingsError" =>
          /\ ~ last_update_success
          /\ Len(sdk_result.message) > 0
          /\ Contains(sdk_result.message, last_exception)

C7_Witness ==
    /\ cloud_state = "loaded"
    /\ sdk_result.kind = "AirthingsError"
    /\ DOMAIN coordinator_data = Serials
    /\ last_exception = <<"Unable to fetch data: ", "4", "0", "1">>


\* the (serial, key) pairs of a reading-set whose sensor type is in SENSORS
KnownPairs(data) ==
    { p \in (DOMAIN data) \X SensorKeys :
        \E i \in 1..Len(data[p[1]].sensors) :
            data[p[1]].sensors[i].sensor_type = p[2] }

C13_EntitiesFixedAtSetup ==
    [][(cloud_state = "loaded" /\ cloud_state' = "loaded")
         => entities' = entities]_vars

C13_Witness ==
    /\ cloud_state = "loaded"
    /\ last_update_success
    /\ \E p \in KnownPairs(coordinator_data) :
          \A i \in 1..Len(entities) : entities[i].unique_id # <<p[1], "_", p[2]>>
    /\ \E i \in 1..Len(entities) : entities[i].id \notin DOMAIN coordinator_data

\* C19: the setup stores the coordinator and forwards the platform setup
\* only when the first refresh succeeded: a setup whose fetch fails stores no
\* coordinator and makes no entity. The registry holds the coordinator
\* exactly while the entry is loaded; an unload removes it when the
\* platforms unloaded (unload_ok) and leaves the registry as it was when they
\* did not.
C19_RegisteredAfterFirstRefresh ==
    [][/\ cloud_state # "loaded"
          => IF sdk_result'.kind = "ok"
             THEN /\ cloud_state' = "loaded" /\ last_update_success'
                  /\ coordinator_data' = sdk_result'.devices
                  /\ hass_data' = hass_data \cup {EntryId}
                  /\ entities' = SetupEntities(coordinator_data', SerialOrder)
             ELSE /\ cloud_state' = "setup_retry"
                  /\ hass_data' = hass_data /\ EntryId \notin hass_data'
                  /\ entities' = <<>>
       /\ (cloud_state = "loaded" /\ last_unload_ok' # last_unload_ok)
          => IF last_unload_ok' = <<TRUE>>
             THEN hass_data' = hass_data \ {EntryId} /\ cloud_state' # "loaded"
             ELSE hass_data' = hass_data /\ cloud_state' = "loaded"
       /\ (cloud_state = "loaded" /\ last_unload_ok' = last_unload_ok)
          => hass_data' = hass_data
       /\ EntryId \in hass_data' <=> cloud_state' = "loaded"]_vars

C19_Witness ==
    /\ cloud_state = "setup_retry"
    /\ sdk_result.kind = "AirthingsError"
    /\ last_unload_ok = <<TRUE>>
    /\ EntryId \notin hass_data
    /\ entities = <<>>

====
